---- MODULE Spec2Model ----
(***************************************************************************)
(* Model of the feature-proxy routing core (src/reverseproxy.go):          *)
(*   - ReverseProxy: the domain router (domains, domainMap, RWMutex)       *)
(*   - proxyHandlers / proxyHandler: the per-subdomain backend registry    *)
(*     and its time.Timer based liveness                                   *)
(*   - Transport.RoundTrip: the authenticated, timeout-aware round trip    *)
(*                                                                         *)
(* Four specifications share the variables:                                *)
(*   Spec           the router under concurrent lookups and admin events   *)
(*   SpecAdmin      the router under admin events, Exists and Subdomains   *)
(*   SpecServe      one caller of ServeHTTPWithPort, Exists and Subdomains *)
(*   SpecTransport  one outbound round trip through Transport.RoundTrip    *)
(***************************************************************************)
EXTENDS Integers, Sequences, FiniteSets, TLC

VARIABLES
    domains,     \* ReverseProxy.domains: registered patterns, in registration order
    domainMap,   \* ReverseProxy.domainMap: pattern -> (port -> (ipaddress -> proxyHandler))
    rd,          \* per caller: the position and locals of its FindHandler call
    crashed,     \* the Go runtime aborted the process (concurrent map access detected)
    lastAdd,     \* history: the Add or Remove that was the last operation, or NoAdd
    rt,          \* the position and locals of one Transport.RoundTrip call
    qry          \* the last Exists or Subdomains call and the value it returned

vars == <<domains, domainMap, rd, crashed, lastAdd, rt, qry>>

routerVars == <<domains, domainMap, rd, crashed, lastAdd, qry>>

----------------------------------------------------------------------------
(* Bounds and input sets                                                   *)

\* var proxyHandlerLifetime = 30 * time.Second (in seconds)
proxyHandlerLifetime == 30

\* the amount of time one Tick lets pass
TickStep == 15

\* at most this many patterns get registered
MaxDomains == 2

\* at most this many handles are registered at a time, over all registries
MaxHandles == 2

\* Transport.Timeout, when one is configured, in time units
MaxTimeout == 2

\* the concurrent callers of FindHandler
Readers == {1, 2}

\* subdomain strings are sequences of characters, so that path.Match can
\* take them apart; "*" is the glob metacharacter
Patterns == { <<"a">>, <<"a", "*">>, <<"*">> }

\* the subdomain tokens looked up
Subdomains == { <<"a">>, <<"a", "b">> }

Ports == {80, 443}

Addresses == {"ip1", "ip2"}

\* the backend instances that come and go: two on port 80, one on port 443
Backends == { <<"ip1", 80>>, <<"ip2", 80>>, <<"ip1", 443>> }

\* the http.Handler values handed to Add
Handlers == {"h1", "h2"}

\* a nil http.Handler
nil == "nil"

\* no registry chosen (a nil proxyHandlers)
NoName == <<"-">>

\* history: no Add was the last operation. prior: the Add replaced an expired
\* handle; removed, was: the handle the last operation, a Remove, deleted,
\* and whether it was live or expired
NoAdd ==
    [subdomain |-> NoName, ipaddress |-> "-", port |-> 0, handler |-> "nil",
     handlers |-> {}, elapsed |-> 0, prior |-> "-", removed |-> <<>>, was |-> "-"]

----------------------------------------------------------------------------
(* Pure helpers                                                            *)

Max(a, b) == IF a >= b THEN a ELSE b

\* path.Match restricted to literal characters and "*": "*" matches any
\* sequence of non-separator characters
RECURSIVE Match(_, _)
Match(pattern, name) ==
    IF pattern = <<>> THEN name = <<>>
    ELSE IF Head(pattern) = "*"
         THEN \/ Match(Tail(pattern), name)
              \/ /\ name # <<>>
                 /\ Head(name) # "/"
                 /\ Match(pattern, Tail(name))
         ELSE /\ name # <<>>
              /\ Head(name) = Head(pattern)
              /\ Match(Tail(pattern), Tail(name))

\* the indices of domains whose pattern matches subdomain
Matching(subdomain) ==
    { i \in 1..Len(domains) : Match(domains[i], subdomain) }

\* the smallest element of a non-empty set of naturals
Min(S) == CHOOSE i \in S : \A j \in S : i <= j

\* the largest element of a non-empty set of naturals
Last(S) == CHOOSE i \in S : \A j \in S : i >= j

\* faulty variant of FirstMatch: the loop without its break, the last match wins
FirstMatchNoBreak(subdomain) ==
    IF Matching(subdomain) = {} THEN NoName
    ELSE domains[Last(Matching(subdomain))]

\* the loop of FindHandler over r.domains: the first matching name, then break
FirstMatch(subdomain) ==
    IF Matching(subdomain) = {} THEN NoName
    ELSE domains[Min(Matching(subdomain))]

\* faulty variant of FindRegistry: the wildcard scan comes before the exact lookup
FindRegistryScanFirst(subdomain) ==
    IF FirstMatch(subdomain) \in DOMAIN domainMap THEN FirstMatch(subdomain)
    ELSE IF subdomain \in DOMAIN domainMap THEN subdomain
    ELSE NoName

\* FindHandler, lines 86-97: the registry a lookup resolves through (its key
\* in domainMap), or NoName when proxyHandlers stays nil
FindRegistry(subdomain) ==
    IF subdomain \in DOMAIN domainMap THEN subdomain
    ELSE IF FirstMatch(subdomain) \in DOMAIN domainMap THEN FirstMatch(subdomain)
    ELSE NoName

\* ph[port] of the registry name: the ipaddress -> proxyHandler map, empty
\* when the port has no entry
PortMap(name, port) ==
    IF name \in DOMAIN domainMap /\ port \in DOMAIN domainMap[name]
    THEN domainMap[name][port]
    ELSE <<>>

\* newProxyHandler: the handler and a timer that fires after
\* proxyHandlerLifetime. left: time until the timer fires; C: the timer's
\* channel holds the value sent when it fired
newProxyHandler(h) ==
    [handler |-> h, left |-> proxyHandlerLifetime, C |-> FALSE]

\* the deadline of the handle has not passed
Live(ph) == ph.left > 0

\* function f with key k set to v (k added when absent)
Put(f, k, v) == [x \in DOMAIN f \cup {k} |-> IF x = k THEN v ELSE f[x]]

\* function f without key k
Del(f, k) == [x \in DOMAIN f \ {k} |-> f[x]]

\* faulty variant of add: a handle already stored for (port, ipaddress) is kept
addKeepExisting(ph, port, ipaddress, h) ==
    LET m == IF port \in DOMAIN ph THEN ph[port] ELSE <<>>
    IN  IF ipaddress \in DOMAIN m THEN ph
        ELSE Put(ph, port, Put(m, ipaddress, newProxyHandler(h)))

\* proxyHandlers.add: make the port's map when nil, then store a new handle
add(ph, port, ipaddress, h) ==
    LET m == IF port \in DOMAIN ph THEN ph[port] ELSE <<>>
    IN  Put(ph, port, Put(m, ipaddress, newProxyHandler(h)))

\* the handles registered, over all registries and ports
Entries ==
    { e \in Patterns \X Ports \X Addresses :
        /\ e[1] \in DOMAIN domainMap
        /\ e[2] \in DOMAIN domainMap[e[1]]
        /\ e[3] \in DOMAIN domainMap[e[1]][e[2]] }

NumHandles == Cardinality(Entries)

----------------------------------------------------------------------------
(* State                                                                   *)

\* host, invoked, notFound: the request of ServeHTTPWithPort the lookup is
\* for, the handler its ServeHTTP was called on, and whether http.NotFound
\* answered it
IdleReader ==
    [pc |-> "idle", subdomain |-> NoName, port |-> 0, name |-> NoName,
     ipaddress |-> "-", handler |-> nil, result |-> nil, afterAdd |-> NoAdd,
     host |-> <<>>, invoked |-> nil, notFound |-> FALSE]

\* no *http.Response
NoResponse == [origin |-> "none"]

IdleTrip ==
    [pc |-> "idle", Method |-> "-", cookie |-> "-", validate |-> FALSE,
     Timeout |-> 0, Subdomain |-> "-", URL |-> "-", elapsed |-> 0,
     ctxErr |-> "nil", calls |-> 0, innerResp |-> NoResponse, innerErr |-> "nil",
     resp |-> NoResponse, err |-> "nil"]

\* a []string value: the array that backs it and the elements seen through it
NoSlice == [array |-> "none", elems |-> <<>>]

NoQuery == [op |-> "none", subdomain |-> NoName, exists |-> FALSE, ds |-> NoSlice]

Init ==
    /\ domains = <<>>
    /\ domainMap = <<>>
    /\ rd = [r \in Readers |-> IdleReader]
    /\ crashed = FALSE
    /\ lastAdd = NoAdd
    /\ rt = IdleTrip
    /\ qry = NoQuery

\* r.mu is free for Lock(): no caller holds RLock()
NoReader == \A r \in Readers : rd[r].pc = "idle"

\* another caller is inside its range loop over the same ph[port]
Iterating(r) ==
    \E q \in Readers \ {r} :
        /\ rd[q].pc \in {"range", "alive", "delete"}
        /\ rd[q].name = rd[r].name
        /\ rd[q].port = rd[r].port

----------------------------------------------------------------------------
(* Time                                                                    *)

\* the timer of one handle after d time units: when it reaches its time it
\* fires and sends on its channel
Elapse(ph, d) ==
    [ph EXCEPT !.left = Max(0, ph.left - d),
               !.C = ph.C \/ (ph.left > 0 /\ ph.left - d <= 0)]

\* history: the time since the Add, counted up to proxyHandlerLifetime
Older(a, d) ==
    IF a.subdomain = NoName THEN a
    ELSE [a EXCEPT !.elapsed = proxyHandlerLifetime - Max(0, proxyHandlerLifetime - a.elapsed - d)]

\* TickStep time units pass
Tick ==
    /\ ~crashed
    /\ domainMap' = [n \in DOMAIN domainMap |->
                       [p \in DOMAIN domainMap[n] |->
                          [a \in DOMAIN domainMap[n][p] |->
                             Elapse(domainMap[n][p][a], TickStep)]]]
    /\ lastAdd' = Older(lastAdd, TickStep)
    /\ rd' = [r \in Readers |-> [rd[r] EXCEPT !.afterAdd = Older(@, TickStep)]]
    /\ UNCHANGED <<domains, crashed, rt, qry>>

----------------------------------------------------------------------------
(* Administrative events                                                   *)

\* history: what an event for (subdomain, ipaddress, port) finds there
Found(subdomain, ipaddress, port) ==
    IF ipaddress \notin DOMAIN PortMap(subdomain, port) THEN "absent"
    ELSE IF Live(PortMap(subdomain, port)[ipaddress]) THEN "live"
    ELSE "expired"

\* faulty variant of Register: the pattern is appended on every Add
RegisterAgain(doms, subdomain) == Append(doms, subdomain)

\* the pattern list after an Add of subdomain: the pattern is appended when
\* it is not registered yet
Register(doms, subdomain) ==
    IF \E i \in 1..Len(doms) : doms[i] = subdomain
    THEN doms
    ELSE Append(doms, subdomain)

\* Add event: under r.mu.Lock(), create the registry of the pattern when
\* absent, register the pattern, and insert the handle
Add(subdomain, ipaddress, port, h) ==
    /\ ~crashed
    /\ NoReader
    /\ subdomain \in DOMAIN domainMap \/ Len(domains) < MaxDomains
    /\ ipaddress \in DOMAIN PortMap(subdomain, port) \/ NumHandles < MaxHandles
    /\ LET ph == IF subdomain \in DOMAIN domainMap THEN domainMap[subdomain] ELSE <<>>
       IN  domainMap' = Put(domainMap, subdomain, add(ph, port, ipaddress, h))
    /\ domains' = Register(domains, subdomain)
    /\ lastAdd' = [NoAdd EXCEPT
                     !.subdomain = subdomain, !.ipaddress = ipaddress, !.port = port,
                     !.handler = h,
                     !.prior = IF Found(subdomain, ipaddress, port) = "expired"
                               THEN "expired" ELSE "-",
                     !.handlers = { domainMap'[subdomain][port][a].handler :
                                      a \in DOMAIN domainMap'[subdomain][port] }]
    /\ UNCHANGED <<rd, crashed, rt, qry>>

\* faulty variant of remove: only a handle whose deadline has not passed is deleted
removeLiveOnly(dm, subdomain, ipaddress, port) ==
    IF /\ subdomain \in DOMAIN dm
       /\ port \in DOMAIN dm[subdomain]
       /\ ipaddress \in DOMAIN dm[subdomain][port]
       /\ Live(dm[subdomain][port][ipaddress])
    THEN [dm EXCEPT ![subdomain][port] = Del(@, ipaddress)]
    ELSE dm

\* domainMap after a Remove: without the handle of (subdomain, ipaddress,
\* port) when it has one, live or expired, and the same otherwise
remove(dm, subdomain, ipaddress, port) ==
    IF /\ subdomain \in DOMAIN dm
       /\ port \in DOMAIN dm[subdomain]
       /\ ipaddress \in DOMAIN dm[subdomain][port]
    THEN [dm EXCEPT ![subdomain][port] = Del(@, ipaddress)]
    ELSE dm

\* Remove event: under r.mu.Lock(), delete the handle of (subdomain,
\* ipaddress, port) when present
Remove(subdomain, ipaddress, port) ==
    /\ ~crashed
    /\ NoReader
    /\ domainMap' = remove(domainMap, subdomain, ipaddress, port)
    /\ lastAdd' = IF Found(subdomain, ipaddress, port) = "absent"
                  THEN NoAdd
                  ELSE [NoAdd EXCEPT !.removed = <<subdomain, port, ipaddress>>,
                                     !.was = Found(subdomain, ipaddress, port)]
    /\ UNCHANGED <<domains, rd, crashed, rt, qry>>

----------------------------------------------------------------------------
(* FindHandler                                                             *)

\* faulty variant of Asked: when the chosen registry has nothing on the port,
\* the first matching pattern whose registry has
AskedWithFallback(subdomain, port) ==
    LET having == { i \in Matching(subdomain) : DOMAIN PortMap(domains[i], port) # {} }
    IN  IF DOMAIN PortMap(FindRegistry(subdomain), port) # {} \/ having = {}
        THEN FindRegistry(subdomain)
        ELSE domains[Min(having)]

\* FindHandler, lines 86-103: the one registry whose Handler(port) is called,
\* the registry pattern resolution chose, whatever it holds on the port
Asked(subdomain, port) == FindRegistry(subdomain)

\* history: the Add this lookup for (subdomain, port) follows immediately
Followed(subdomain, port) ==
    IF lastAdd.subdomain = subdomain /\ lastAdd.port = port
    THEN [lastAdd EXCEPT !.prior = "-"]
    ELSE NoAdd

\* the locals of a FindHandler call when it reaches the range loop of
\* proxyHandlers.Handler, or its end when ph[port] is empty
Begun(subdomain, port) ==
    LET name == Asked(subdomain, port)
        go   == [IdleReader EXCEPT !.subdomain = subdomain, !.port = port,
                                   !.name = name, !.afterAdd = Followed(subdomain, port)]
    IN  IF name = NoName \/ DOMAIN PortMap(name, port) = {}
        THEN [go EXCEPT !.pc = "done", !.result = nil]
        ELSE [go EXCEPT !.pc = "range"]

\* FindHandler up to the range loop of proxyHandlers.Handler: RLock, choose
\* the registry, read ph[port] and return nil when it is empty
FindHandlerBegin(r, subdomain, port) ==
    /\ ~crashed
    /\ rd[r].pc = "idle"
    /\ rd' = [rd EXCEPT ![r] = Begun(subdomain, port)]
    /\ lastAdd' = NoAdd
    /\ UNCHANGED <<domains, domainMap, crashed, rt, qry>>

\* for ipaddress, handler := range ph[port]: the next entry, in any order,
\* or the end of the loop and return nil, false
Range(r) ==
    /\ ~crashed
    /\ rd[r].pc = "range"
    /\ LET m == PortMap(rd[r].name, rd[r].port)
       IN  IF DOMAIN m = {}
           THEN rd' = [rd EXCEPT ![r].pc = "done", ![r].result = nil]
           ELSE \E a \in DOMAIN m :
                   rd' = [rd EXCEPT ![r].pc = "alive", ![r].ipaddress = a,
                                    ![r].handler = m[a].handler]
    /\ UNCHANGED <<domains, domainMap, crashed, lastAdd, rt, qry>>

\* the channel of the timer of the handle the caller holds. A handle that
\* left the map while the caller held it was deleted by another lookup, after
\* that lookup received the timer's value: its channel is empty
TimerC(r) ==
    LET m == PortMap(rd[r].name, rd[r].port)
    IN  IF rd[r].ipaddress \in DOMAIN m THEN m[rd[r].ipaddress].C ELSE FALSE

\* faulty variant of alive: the test inverted
aliveInverted(r) == TimerC(r)

\* proxyHandler.alive: a non-blocking receive from timer.C; a received value
\* means dead, and the value is gone from the channel afterwards
alive(r) == ~TimerC(r)

\* proxyHandler.extend: timer.Reset(proxyHandlerLifetime); a value already
\* sent on the channel stays there
extend(ph) == [ph EXCEPT !.left = proxyHandlerLifetime]

\* faulty variant of selected: alive() also extends the handle
selectedAndExtended(ph) == extend([ph EXCEPT !.C = FALSE])

\* the handle after the select of alive(): a value in timer.C was received,
\* an empty channel took the default branch; the timer itself is not touched
selected(ph) == [ph EXCEPT !.C = FALSE]

\* if handler.alive() { return handler.handler, true } else { ... }
Alive(r) ==
    /\ ~crashed
    /\ rd[r].pc = "alive"
    /\ rd' = IF alive(r)
             THEN [rd EXCEPT ![r].pc = "done", ![r].result = rd[r].handler,
                             ![r].ipaddress = "-", ![r].handler = nil]
             ELSE [rd EXCEPT ![r].pc = "delete"]
    /\ domainMap' =
         IF rd[r].ipaddress \in DOMAIN PortMap(rd[r].name, rd[r].port)
         THEN [domainMap EXCEPT
                 ![rd[r].name][rd[r].port][rd[r].ipaddress] = selected(@)]
         ELSE domainMap
    /\ UNCHANGED <<domains, crashed, lastAdd, rt, qry>>

\* delete(ph[port], ipaddress), holding only RLock. With another caller in
\* its loop over the same map this is an unsynchronised map write: the
\* runtime may detect it and abort the process, or not
Delete(r) ==
    /\ ~crashed
    /\ rd[r].pc = "delete"
    /\ domainMap' =
         IF rd[r].ipaddress \in DOMAIN PortMap(rd[r].name, rd[r].port)
         THEN [domainMap EXCEPT ![rd[r].name][rd[r].port] = Del(@, rd[r].ipaddress)]
         ELSE domainMap
    /\ rd' = [rd EXCEPT ![r].pc = "range", ![r].ipaddress = "-", ![r].handler = nil]
    /\ \/ crashed' = FALSE
       \/ Iterating(r) /\ crashed' = TRUE
    /\ UNCHANGED <<domains, lastAdd, rt, qry>>

\* FindHandler returns: the deferred RUnlock
Return(r) ==
    /\ ~crashed
    /\ rd[r].pc = "done"
    /\ rd' = [rd EXCEPT ![r] = IdleReader]
    /\ UNCHANGED <<domains, domainMap, crashed, lastAdd, rt, qry>>

----------------------------------------------------------------------------
(* The router's specification                                              *)

Next ==
    \/ Tick
    \/ \E s \in Patterns, b \in Backends, h \in Handlers : Add(s, b[1], b[2], h)
    \/ \E s \in Patterns, b \in Backends : Remove(s, b[1], b[2])
    \/ \E r \in Readers, s \in Subdomains, p \in Ports : FindHandlerBegin(r, s, p)
    \/ \E r \in Readers : Range(r)
    \/ \E r \in Readers : Alive(r)
    \/ \E r \in Readers : Delete(r)
    \/ \E r \in Readers : Return(r)

Spec == Init /\ [][Next]_vars

----------------------------------------------------------------------------
(* Exists and Subdomains                                                   *)

\* the subdomain strings Exists is asked about
Queried == Subdomains \cup { <<"b">> }

\* faulty variant of Exists: the exact key only, without the loop over r.domains
ExistsExactOnly(subdomain) == subdomain \in DOMAIN domainMap

\* ReverseProxy.Exists: the exact key in domainMap, else any pattern of
\* r.domains that path.Match accepts
Exists(subdomain) ==
    \/ subdomain \in DOMAIN domainMap
    \/ \E i \in 1..Len(domains) : Match(domains[i], subdomain)

\* make([]string, n): a new array of n empty strings
make(n) == [array |-> "new", elems |-> [i \in 1..n |-> <<>>]]

\* copy(dst, src): the first min(len(dst), len(src)) elements of src
copy(dst, src) ==
    [dst EXCEPT !.elems = [i \in 1..Len(dst.elems) |->
                             IF i <= Len(src) THEN src[i] ELSE dst.elems[i]]]

\* faulty variant of SubdomainsSlice: make([]string, 0, len(r.domains)), so
\* that copy has no room to copy into
SubdomainsSliceNoRoom(doms) == copy(make(0), doms)

\* ReverseProxy.Subdomains: ds := make([]string, len(r.domains)); copy(ds, r.domains)
SubdomainsSlice(doms) == copy(make(Len(doms)), doms)

\* the elements a holder of slice sl reads while r.domains is doms: a slice
\* backed by the array of r.domains reads that array
Seen(sl, doms) ==
    IF sl.array = "r.domains"
    THEN [i \in 1..Len(sl.elems) |-> IF i <= Len(doms) THEN doms[i] ELSE sl.elems[i]]
    ELSE sl.elems

\* one call of Exists, from RLock to RUnlock
ExistsCall(subdomain) ==
    /\ ~crashed
    /\ qry' = [NoQuery EXCEPT !.op = "Exists", !.subdomain = subdomain,
                              !.exists = Exists(subdomain)]
    /\ UNCHANGED <<domains, domainMap, rd, crashed, lastAdd, rt>>

\* one call of Subdomains, from RLock to RUnlock
SubdomainsCall ==
    /\ ~crashed
    /\ qry' = [NoQuery EXCEPT !.op = "Subdomains", !.ds = SubdomainsSlice(domains)]
    /\ UNCHANGED <<domains, domainMap, rd, crashed, lastAdd, rt>>

\* the router under admin events and the two queries
NextAdmin ==
    \/ Tick
    \/ \E s \in Patterns, b \in Backends, h \in Handlers : Add(s, b[1], b[2], h)
    \/ \E s \in Patterns, b \in Backends : Remove(s, b[1], b[2])
    \/ \E s \in Queried : ExistsCall(s)
    \/ SubdomainsCall

SpecAdmin == Init /\ [][NextAdmin]_vars

----------------------------------------------------------------------------
(* ServeHTTPWithPort                                                       *)

\* the one caller of the sequential specification
Callers == {1}

\* req.Host values, as sequences of characters: "A.x", "aB", "b.a"
Hosts == { <<"A", ".", "x">>, <<"a", "B">>, <<"b", ".", "a">> }

\* faulty variant of ToLower: the string as it is
ToLowerNot(s) == s

\* strings.ToLower over the characters in use
ToLower(s) ==
    [i \in 1..Len(s) |-> IF s[i] = "A" THEN "a"
                         ELSE IF s[i] = "B" THEN "b"
                         ELSE s[i]]

\* strings.Split(s, ".")[0]: the part of s before its first ".", all of s
\* when it has none
FirstLabel(s) ==
    LET dots == { i \in 1..Len(s) : s[i] = "." }
    IN  IF dots = {} THEN s ELSE SubSeq(s, 1, Min(dots) - 1)

\* ServeHTTPWithPort up to the range loop of the FindHandler call it makes
ServeHTTPWithPort(r, host, port) ==
    /\ ~crashed
    /\ rd[r].pc = "idle"
    /\ rd' = [rd EXCEPT ![r] =
                [Begun(ToLower(FirstLabel(host)), port) EXCEPT !.host = host]]
    /\ lastAdd' = NoAdd
    /\ UNCHANGED <<domains, domainMap, crashed, rt, qry>>

\* after FindHandler returned (RUnlock): handler.ServeHTTP(w, req) when the
\* handler is not nil, http.NotFound(w, req) otherwise
Dispatch(r) ==
    /\ ~crashed
    /\ rd[r].pc = "done"
    /\ rd' = [rd EXCEPT ![r].pc = "served",
                        ![r].invoked = rd[r].result,
                        ![r].notFound = (rd[r].result = nil)]
    /\ UNCHANGED <<domains, domainMap, crashed, lastAdd, rt, qry>>

\* ServeHTTPWithPort returns
ServeReturn(r) ==
    /\ ~crashed
    /\ rd[r].pc = "served"
    /\ rd' = [rd EXCEPT ![r] = IdleReader]
    /\ UNCHANGED <<domains, domainMap, crashed, lastAdd, rt, qry>>

\* the caller of Exists or Subdomains drops the value it got
QueryReturn ==
    /\ qry # NoQuery
    /\ qry' = NoQuery
    /\ UNCHANGED <<domains, domainMap, rd, crashed, lastAdd, rt>>

\* the router under admin events and one caller that serves requests and
\* asks Exists and Subdomains, one call at a time
NextServe ==
    \/ qry = NoQuery /\ Tick
    \/ qry = NoQuery /\ \E s \in Patterns, b \in Backends, h \in Handlers :
                           Add(s, b[1], b[2], h)
    \/ qry = NoQuery /\ \E s \in Patterns, b \in Backends : Remove(s, b[1], b[2])
    \/ qry = NoQuery /\ \E r \in Callers, host \in Hosts, p \in Ports :
                           ServeHTTPWithPort(r, host, p)
    \/ \E r \in Callers : Range(r)
    \/ \E r \in Callers : Alive(r)
    \/ \E r \in Callers : Delete(r)
    \/ \E r \in Callers : Dispatch(r)
    \/ \E r \in Callers : ServeReturn(r)
    \/ NoReader /\ qry = NoQuery /\ \E s \in Queried : ExistsCall(s)
    \/ NoReader /\ qry = NoQuery /\ SubdomainsCall
    \/ QueryReturn

SpecServe == Init /\ [][NextServe]_vars

----------------------------------------------------------------------------
(* Transport.RoundTrip                                                     *)

Methods == {"GET", "OPTIONS"}

\* the request's AuthCookieName cookie: absent, or present with a value the
\* validator rejects or accepts
Cookies == {"none", "bad", "good"}

Timeouts == {0, MaxTimeout}

TransportSubdomains == {"a", "b"}

URLs == {"/x", "/y"}

\* the status codes a backend answers with
Statuses == {200, 403, 504}

\* the errors of the wrapped transport that do not come from the context
TransportErrors == {"connection refused"}

\* a response the wrapped transport returned
BackendResponse(status) ==
    [origin |-> "backend", StatusCode |-> status, Body |-> <<"backend">>]

\* newForbiddenResponse
newForbiddenResponse ==
    [origin |-> "synthetic", StatusCode |-> 403, Body |-> <<"Forbidden">>]

\* newTimeoutResponse: the body is "<subdomain> upstream timeout: <url>"
newTimeoutResponse(subdomain, u) ==
    [origin |-> "synthetic", StatusCode |-> 504,
     Body |-> <<subdomain, " upstream timeout: ", u>>]

\* faulty variant of NeedsAuth: OPTIONS requests are authenticated too
NeedsAuthAlways(validate, method) == validate

\* line 168: the request is authenticated
NeedsAuth(validate, method) == validate /\ method # "OPTIONS"

\* faulty variant of AuthFails: a missing cookie is let through
AuthFailsBadOnly(cookie) == cookie = "bad"

\* lines 169-177: req.Cookie fails, or AuthCookieValidateFunc returns an error
AuthFails(cookie) == cookie = "none" \/ cookie = "bad"

\* RoundTrip up to the call of the wrapped transport: the authentication
\* check, then t.Transport.RoundTrip is entered, with the derived context
\* when a timeout is configured
RoundTripStart(method, cookie, validate, timeout, subdomain, url) ==
    /\ rt.pc = "idle"
    /\ LET go == [IdleTrip EXCEPT !.Method = method, !.cookie = cookie,
                                  !.validate = validate, !.Timeout = timeout,
                                  !.Subdomain = subdomain, !.URL = url]
       IN  rt' = IF NeedsAuth(validate, method) /\ AuthFails(cookie)
                 THEN [go EXCEPT !.pc = "done", !.resp = newForbiddenResponse]
                 ELSE [go EXCEPT !.pc = "trip", !.calls = 1]
    /\ UNCHANGED routerVars

\* what RoundTrip does with the wrapped transport's (resp, err): without a
\* timeout, and on success, it is returned as it is; an error under a
\* timeout goes on to the ctx.Err() test
Returned(resp, err) ==
    IF rt.Timeout = 0 \/ err = "nil"
    THEN [rt EXCEPT !.pc = "done", !.innerResp = resp, !.innerErr = err,
                    !.resp = resp, !.err = err]
    ELSE [rt EXCEPT !.pc = "failed", !.innerResp = resp, !.innerErr = err]

\* the wrapped transport answers with a backend response
TransportResponds(status) ==
    /\ rt.pc = "trip"
    /\ rt.ctxErr = "nil"
    /\ rt' = Returned(BackendResponse(status), "nil")
    /\ UNCHANGED routerVars

\* the wrapped transport fails on its own (connection refused, reset, DNS)
TransportFails(e) ==
    /\ rt.pc = "trip"
    /\ rt.ctxErr = "nil"
    /\ rt' = Returned(NoResponse, e)
    /\ UNCHANGED routerVars

\* the context of the outbound request is done: the wrapped transport
\* aborts the call and returns the context's error
TransportAborted ==
    /\ rt.pc = "trip"
    /\ rt.ctxErr # "nil"
    /\ rt' = Returned(NoResponse, rt.ctxErr)
    /\ UNCHANGED routerVars

\* one time unit passes during the call; the context derived by
\* context.WithTimeout is done with DeadlineExceeded once Timeout has passed
TripTick ==
    /\ rt.pc \in {"trip", "failed"}
    /\ rt.elapsed < rt.Timeout
    /\ rt' = [rt EXCEPT !.elapsed = rt.elapsed + 1,
                        !.ctxErr = IF rt.ctxErr = "nil" /\ rt.elapsed + 1 >= rt.Timeout
                                   THEN "DeadlineExceeded" ELSE rt.ctxErr]
    /\ UNCHANGED routerVars

\* the parent request's context ends: cancelled ("Canceled") or past a
\* deadline of its own ("DeadlineExceeded"); a derived context inherits the
\* error unless it is done already
ParentDone(e) ==
    /\ rt.pc \in {"trip", "failed"}
    /\ rt.ctxErr = "nil"
    /\ rt' = [rt EXCEPT !.ctxErr = e]
    /\ UNCHANGED routerVars

\* faulty variant of TimedOut: the timeout is never recognised
TimedOutNever(ctxErr) == FALSE

\* line 191: ctx.Err() == context.DeadlineExceeded
TimedOut(ctxErr) == ctxErr = "DeadlineExceeded"

\* lines 188-194: after a failed call under a timeout, a 504 when the
\* context's deadline is exceeded, else the error as it came
RoundTripFailed ==
    /\ rt.pc = "failed"
    /\ rt' = IF TimedOut(rt.ctxErr)
             THEN [rt EXCEPT !.pc = "done",
                             !.resp = newTimeoutResponse(rt.Subdomain, rt.URL),
                             !.err = "nil"]
             ELSE [rt EXCEPT !.pc = "done", !.resp = rt.innerResp, !.err = rt.innerErr]
    /\ UNCHANGED routerVars

\* the caller has the result; the next request may come
RoundTripReturn ==
    /\ rt.pc = "done"
    /\ rt' = IdleTrip
    /\ UNCHANGED routerVars

NextTransport ==
    \/ \E m \in Methods, c \in Cookies, v \in BOOLEAN, t \in Timeouts,
          s \in TransportSubdomains, u \in URLs : RoundTripStart(m, c, v, t, s, u)
    \/ \E st \in Statuses : TransportResponds(st)
    \/ \E e \in TransportErrors : TransportFails(e)
    \/ TransportAborted
    \/ TripTick
    \/ \E e \in {"Canceled", "DeadlineExceeded"} : ParentDone(e)
    \/ RoundTripFailed
    \/ RoundTripReturn

SpecTransport == Init /\ [][NextTransport]_vars

----------------------------------------------------------------------------
(* Properties of the router                                                *)

\* ph[port] of the registry name in the registry map dm
PortMapIn(dm, name, port) ==
    IF name \in DOMAIN dm /\ port \in DOMAIN dm[name] THEN dm[name][port] ELSE <<>>

\* the handlers of the live handles of ph[port] of the registry name
LiveHandlers(dm, name, port) ==
    { PortMapIn(dm, name, port)[a].handler :
        a \in { x \in DOMAIN PortMapIn(dm, name, port) : Live(PortMapIn(dm, name, port)[x]) } }

\* the addresses of ph[port] of the registry name whose handle is dead
DeadAddresses(dm, name, port) ==
    { a \in DOMAIN PortMapIn(dm, name, port) : ~Live(PortMapIn(dm, name, port)[a]) }

\* caller r is a finished lookup that followed an Add for its own
\* (subdomain, port) immediately, with less than the TTL passed since
AfterAdd(r) ==
    /\ rd[r].pc = "done"
    /\ rd[r].afterAdd # NoAdd
    /\ rd[r].afterAdd.elapsed < proxyHandlerLifetime

\* C1, as claimed: a lookup for (subdomain, port) that follows
\* Add(subdomain, address, port, handler) immediately, before the TTL has
\* elapsed, returns the handler just added, whatever else is registered
C1_LookupReturnsAdded ==
    \A r \in Readers : AfterAdd(r) => rd[r].result = rd[r].afterAdd.handler

\* C1, amended: such a lookup returns the handler of a handle registered
\* for that subdomain and port when the Add finished, never none; it is the
\* handler just added when no other address is registered on that port
C1_LookupReturnsRegistered ==
    \A r \in Readers : AfterAdd(r) => rd[r].result \in rd[r].afterAdd.handlers

\* C1, witness: a lookup right after an Add returned the added handler
\* although another handler was registered on the port
C1_Witness ==
    \E r \in Readers :
        /\ AfterAdd(r)
        /\ rd[r].result = rd[r].afterAdd.handler
        /\ Cardinality(rd[r].afterAdd.handlers) = 2

\* the step with which the lookup of caller r returns its result
Completes(r) == rd[r].pc # "done" /\ rd'[r].pc = "done"

\* C2: once the handles of a port have outlived their TTL without renewal,
\* a lookup on that port treats them as dead: a lookup that ends with no
\* live backend left on its port returns not-found (nil) and has removed
\* the dead handles of the port
C2_ExpiredRemovedNotFound ==
    [][\A r \in Readers :
         Completes(r) /\ LiveHandlers(domainMap', rd'[r].name, rd'[r].port) = {}
         => /\ rd'[r].result = nil
            /\ DeadAddresses(domainMap', rd'[r].name, rd'[r].port) = {}]_vars

\* C3: no registry map is written (the eviction of a dead entry by a
\* lookup included) while another caller is in its loop over that map, and
\* the process never aborts on a concurrent map access
C3_NoConcurrentMapWrite ==
    /\ ~crashed
    /\ \A r \in Readers : rd[r].pc = "delete" => ~Iterating(r)

\* C4: a lookup whose registry holds a live handle for the port returns the
\* handler of a live handle of that port: never none, never the handler of
\* a dead handle
C4_LiveHandlerReturned ==
    [][\A r \in Readers :
         Completes(r) /\ LiveHandlers(domainMap', rd'[r].name, rd'[r].port) # {}
         => rd'[r].result \in LiveHandlers(domainMap', rd'[r].name, rd'[r].port)]_vars

\* caller r is inside a lookup
Looking(r) == rd[r].pc # "idle"

\* C5: a lookup for a subdomain that has a registry under exactly that
\* string resolves through that registry, also when a wildcard pattern
\* registered earlier matches the subdomain
C5_ExactTakesPrecedence ==
    \A r \in Readers :
        Looking(r) /\ rd[r].subdomain \in DOMAIN domainMap
        => rd[r].name = rd[r].subdomain

\* C5, witness: a lookup resolved through the exact registry while a
\* matching wildcard pattern was registered before the exact one
C5_Witness ==
    \E r \in Readers :
        /\ Looking(r)
        /\ rd[r].name = rd[r].subdomain
        /\ \E i, j \in 1..Len(domains) :
              /\ i < j
              /\ domains[j] = rd[r].subdomain
              /\ domains[i] # rd[r].subdomain
              /\ Match(domains[i], rd[r].subdomain)

\* C6: for patterns P1 registered before P2 that both match a subdomain
\* without exact registration, the lookup resolves through the registry of
\* the first registered match and never through P2's
C6_FirstWildcardWins ==
    \A r \in Readers :
        Looking(r) /\ rd[r].subdomain \notin DOMAIN domainMap
        => \A i, j \in Matching(rd[r].subdomain) :
              i < j => /\ rd[r].name # domains[j]
                       /\ (i = Min(Matching(rd[r].subdomain)) => rd[r].name = domains[i])

\* C6, witness: a lookup of a subdomain matched by two wildcard patterns
\* resolved through the one registered first, here the broader one
C6_Witness ==
    \E r \in Readers :
        /\ Looking(r)
        /\ rd[r].subdomain \notin DOMAIN domainMap
        /\ domains = << <<"*">>, <<"a", "*">> >>
        /\ rd[r].name = <<"*">>

----------------------------------------------------------------------------
(* Properties of the transport                                             *)

\* the request of the current round trip lacks the cookie that
\* authentication requires of it
LacksRequiredCookie ==
    /\ rt.pc # "idle"
    /\ rt.validate
    /\ rt.Method # "OPTIONS"
    /\ rt.cookie = "none"

\* C7: a request lacking the cookie authentication requires of it (a
\* validator is configured and the request is no OPTIONS request) gets the
\* synthetic 403, and the wrapped transport is never invoked for it
C7_NoCookieForbidden ==
    LacksRequiredCookie
    => /\ rt.pc = "done"
       /\ rt.resp = newForbiddenResponse
       /\ rt.err = "nil"
       /\ rt.calls = 0

\* C7, witness: a GET without the cookie was answered
C7_Witness == LacksRequiredCookie /\ rt.Method = "GET" /\ rt.pc = "done"

\* C8: an OPTIONS request is never answered with the synthetic 403, even
\* without a cookie, and the wrapped transport is invoked for it
C8_OptionsBypassesAuth ==
    rt.pc # "idle" /\ rt.Method = "OPTIONS"
    => /\ rt.resp # newForbiddenResponse
       /\ rt.calls = 1

\* C8, witness: an OPTIONS request without cookie, with a validator
\* configured, went through the wrapped transport and was answered
C8_Witness ==
    /\ rt.pc = "done"
    /\ rt.Method = "OPTIONS"
    /\ rt.cookie = "none"
    /\ rt.validate
    /\ rt.calls = 1
    /\ rt.resp.origin = "backend"

\* the outbound call was cut off by the deadline of its context
CutOffByDeadline ==
    /\ rt.pc = "done"
    /\ rt.Timeout > 0
    /\ rt.innerErr = "DeadlineExceeded"

\* text occurs in the body
Contains(body, text) == \E i \in 1..Len(body) : body[i] = text

\* C9: with a timeout configured, a round trip that does not complete
\* before the deadline of its context ends in a synthetic 504 and no error,
\* with a body containing the subdomain and the request URL
C9_TimeoutGives504 ==
    CutOffByDeadline
    => /\ rt.err = "nil"
       /\ rt.resp.origin = "synthetic"
       /\ rt.resp.StatusCode = 504
       /\ Contains(rt.resp.Body, rt.Subdomain)
       /\ Contains(rt.resp.Body, rt.URL)

\* C9, witness: the configured timeout passed during the call
C9_Witness == CutOffByDeadline /\ rt.elapsed = rt.Timeout

\* C10: RoundTrip synthesizes a response only on failed authentication or
\* on timeout; any other error of the wrapped transport comes back as it
\* is, with or without a timeout, never as a 403 or a 504
C10_OtherErrorsUnmodified ==
    rt.pc = "done"
    => /\ rt.resp.origin = "synthetic"
          => \/ rt.calls = 0 /\ NeedsAuth(rt.validate, rt.Method) /\ AuthFails(rt.cookie)
             \/ rt.ctxErr = "DeadlineExceeded"
       /\ rt.innerErr \in TransportErrors
          => rt.err = rt.innerErr /\ rt.resp = rt.innerResp

----------------------------------------------------------------------------
(* Properties of Exists and Subdomains                                     *)

\* this step is a call of Exists
ExistsReturns == qry' # qry /\ qry'.op = "Exists"

\* C11: every call Exists(subdomain) returns true exactly when FindHandler's
\* pattern resolution for the same subdomain finds a registry (the exact key,
\* or the first registered pattern that matches), whether or not a handle of
\* that registry is live
C11_ExistsIffRegistryFound ==
    [][ExistsReturns =>
         (qry'.exists <=> FindRegistry(qry'.subdomain) # NoName)]_vars

\* Exists returned true through a glob pattern whose registry has no live handle
C11_Witness ==
    /\ qry.op = "Exists"
    /\ qry.exists
    /\ qry.subdomain \notin DOMAIN domainMap
    /\ FindRegistry(qry.subdomain) # NoName
    /\ \E p \in Ports : DOMAIN PortMap(FindRegistry(qry.subdomain), p) # {}
    /\ \A p \in Ports :
          \A a \in DOMAIN PortMap(FindRegistry(qry.subdomain), p) :
             ~Live(PortMap(FindRegistry(qry.subdomain), p)[a])

\* this step is a call of Subdomains
SubdomainsReturns == qry' # qry /\ qry'.op = "Subdomains"

\* C12: Subdomains() returns the registered patterns in registration order,
\* and no later step of the router (an Add, a Remove, time passing) changes
\* what the caller reads through the slice it got
C12_SubdomainsDetachedSnapshot ==
    [][/\ SubdomainsReturns => Seen(qry'.ds, domains') = domains
       /\ qry.op = "Subdomains" /\ qry' = qry =>
             Seen(qry'.ds, domains') = Seen(qry.ds, domains)]_vars

\* the snapshot holds the first pattern, and a second pattern was registered
\* after the call
C12_Witness ==
    /\ qry.op = "Subdomains"
    /\ Len(Seen(qry.ds, domains)) = 1
    /\ Len(domains) = 2
    /\ Seen(qry.ds, domains)[1] = domains[1]

----------------------------------------------------------------------------
(* Properties of the registries and their handles                          *)

\* C13: in every reachable state the keys of domainMap are patterns of
\* r.domains, and no pattern occurs twice in r.domains
C13_RegistriesWithinPatterns ==
    /\ \A n \in DOMAIN domainMap : \E i \in 1..Len(domains) : domains[i] = n
    /\ \A i, j \in 1..Len(domains) : domains[i] = domains[j] => i = j

\* two patterns are registered, one of them was added twice (its registry has
\* two handles on one port), and a lookup is evicting a handle
C13_Witness ==
    /\ Len(domains) = 2
    /\ \E n \in DOMAIN domainMap, p \in Ports : Cardinality(DOMAIN PortMap(n, p)) = 2
    /\ \E r \in Readers : rd[r].pc = "delete"

\* the handle at entry e = <<pattern, port, ipaddress>> of domain map dm
HandleAt(dm, e) == dm[e[1]][e[2]][e[3]]

\* C14: a Remove event deletes the handle of (subdomain, address, port) when
\* there is one, live or expired, and changes nothing else; a Remove for an
\* absent (subdomain, address, port) leaves domains and domainMap as they
\* were; the handle stays absent until an Add inserts it again, and a lookup
\* only takes, and only returns the handler of, a handle that is registered
C14_RemoveDeletesHandle ==
    [][/\ \A s \in Patterns, b \in Backends :
            Remove(s, b[1], b[2]) =>
               /\ Entries' = Entries \ { <<s, b[2], b[1]>> }
               /\ \A e \in Entries' : HandleAt(domainMap', e) = HandleAt(domainMap, e)
               /\ domains' = domains
               /\ <<s, b[2], b[1]>> \notin Entries => domainMap' = domainMap
       /\ \A e \in Entries' \ Entries :
            /\ lastAdd' # lastAdd
            /\ <<lastAdd'.subdomain, lastAdd'.port, lastAdd'.ipaddress>> = e
       /\ \A r \in Readers :
            /\ rd[r].pc = "range" /\ rd'[r].pc = "alive" =>
                  /\ <<rd[r].name, rd[r].port, rd'[r].ipaddress>> \in Entries
                  /\ rd'[r].handler =
                        HandleAt(domainMap, <<rd[r].name, rd[r].port, rd'[r].ipaddress>>).handler
            /\ Completes(r) /\ rd'[r].result # nil =>
                  rd[r].pc = "alive" /\ rd'[r].result = rd[r].handler]_vars

\* a Remove has just deleted an expired handle
C14_Witness ==
    /\ lastAdd.removed # <<>>
    /\ lastAdd.was = "expired"
    /\ lastAdd.removed \notin Entries

\* the deadline of the handle caller r holds has not passed. A handle that
\* left the map while r held it was evicted by another lookup, which happens
\* to expired handles only
HeldLive(r) ==
    /\ <<rd[r].name, rd[r].port, rd[r].ipaddress>> \in Entries
    /\ Live(HandleAt(domainMap, <<rd[r].name, rd[r].port, rd[r].ipaddress>>))

\* C15: every call of alive() returns true exactly when the deadline of the
\* handle has not passed, also when several lookups hold the same handle
C15_AliveIffDeadlineNotPassed ==
    [][\A r \in Readers :
         rd[r].pc = "alive" /\ rd'[r].pc # "alive" =>
            (rd'[r].pc = "done" <=> HeldLive(r))]_vars

\* C16: a lookup asks one registry only, the one pattern resolution chose:
\* it keeps that registry to its end, takes handles from that registry's map
\* of the port only, and returns none unless it returns the handler of a
\* handle it took there; it never turns to the registry of another pattern
C16_NoFallback ==
    [][\A r \in Readers :
         /\ rd[r].pc = "idle" /\ rd'[r].pc # "idle" =>
               rd'[r].name = FindRegistry(rd'[r].subdomain)
         /\ rd[r].pc # "idle" /\ rd'[r].pc # "idle" => rd'[r].name = rd[r].name
         /\ rd[r].pc = "range" /\ rd'[r].pc = "alive" =>
               rd'[r].ipaddress \in DOMAIN PortMapIn(domainMap, rd[r].name, rd[r].port)
         /\ Completes(r) =>
               \/ rd'[r].result = nil
               \/ rd[r].pc = "alive" /\ rd'[r].result = rd[r].handler]_vars

\* a lookup returned none from the registry it chose while the registry of
\* another pattern that matches the subdomain has a live handle on the port
C16_Witness ==
    \E r \in Readers :
        /\ rd[r].pc = "done"
        /\ rd[r].result = nil
        /\ rd[r].name # NoName
        /\ \E i \in Matching(rd[r].subdomain) :
              /\ domains[i] # rd[r].name
              /\ LiveHandlers(domainMap, domains[i], rd[r].port) # {}

\* the entry of the Add that was the last operation
Added == <<lastAdd.subdomain, lastAdd.port, lastAdd.ipaddress>>

\* C17: after an Add for a (port, address), whatever was stored there before,
\* the registry has the one handle of that (port, address) with the handler
\* of this Add and a timer that fires a full proxyHandlerLifetime after the
\* Add: nothing of the prior handle, its handler, its time left or its
\* expiry, is kept
C17_AddReplaces ==
    lastAdd.subdomain # NoName =>
       /\ Added \in Entries
       /\ HandleAt(domainMap, Added).handler = lastAdd.handler
       /\ HandleAt(domainMap, Added).left = proxyHandlerLifetime - lastAdd.elapsed
       /\ HandleAt(domainMap, Added).C = (lastAdd.elapsed = proxyHandlerLifetime)

\* an Add has just replaced an expired handle
C17_Witness ==
    /\ lastAdd.subdomain # NoName
    /\ lastAdd.prior = "expired"
    /\ lastAdd.elapsed = 0
    /\ Live(HandleAt(domainMap, Added))

\* the time left on the timer of the handle at entry e of domain map dm
Left(dm, e) == HandleAt(dm, e).left

\* C18: the time at which a handle's timer fires is moved by an Add of that
\* handle only. A step of a lookup, of a dispatch, of Exists or of Subdomains
\* leaves the timer of every handle as it is, and the passing of time runs
\* every timer down by the same amount, whatever traffic the handle served
C18_DeadlineOnlyByAdd ==
    [][/\ \A e \in Entries \cap Entries' :
            \/ Left(domainMap', e) = Left(domainMap, e)
            \/ Tick /\ Left(domainMap', e) = Max(0, Left(domainMap, e) - TickStep)
            \/ /\ \E h \in Handlers : Add(e[1], e[3], e[2], h)
               /\ Left(domainMap', e) = proxyHandlerLifetime
       /\ Tick => \A e \in Entries :
                     /\ e \in Entries'
                     /\ Left(domainMap', e) = Max(0, Left(domainMap, e) - TickStep)
       /\ (qry' # qry \/ \E r \in Readers : rd'[r].pc # rd[r].pc) =>
             \A e \in Entries \cap Entries' : Left(domainMap', e) = Left(domainMap, e)]_vars

\* a request was dispatched to the handler of a handle whose timer has run
\* for TickStep and still has the rest of its lifetime left
C18_Witness ==
    \E r \in Callers :
        /\ rd[r].pc = "served"
        /\ rd[r].invoked # nil
        /\ \E a \in DOMAIN PortMap(rd[r].name, rd[r].port) :
              /\ PortMap(rd[r].name, rd[r].port)[a].handler = rd[r].invoked
              /\ PortMap(rd[r].name, rd[r].port)[a].left = proxyHandlerLifetime - TickStep

----------------------------------------------------------------------------
(* Properties of ServeHTTPWithPort                                         *)

\* the lowercased first label of each host in Hosts, written out
LabelOf(host) ==
    IF host = <<"A", ".", "x">> THEN <<"a">>
    ELSE IF host = <<"a", "B">> THEN <<"a", "b">>
    ELSE <<"b">>

----------------------------------------------------------------------------
(* Properties of the transport's timeout                                   *)

\* C19: a finished round trip ends in the synthetic 504 only when a timeout
\* is configured and that much time has passed during the call; when the
\* context of the call ended before that, through the parent request, the
\* error of the call comes back as it is
C19_TimeoutOnlyOnOwnDeadline ==
    rt.pc = "done"
    => /\ rt.resp.origin = "synthetic" /\ rt.resp.StatusCode = 504
          => rt.Timeout > 0 /\ rt.elapsed >= rt.Timeout
       /\ rt.calls = 1 /\ rt.ctxErr # "nil" /\ rt.elapsed < rt.Timeout
          => rt.resp = rt.innerResp /\ rt.err = rt.innerErr

====
